---- MODULE Spec2Model ----
(***************************************************************************)
(* Model of src/function_app.py: the HTTP handler get_custom_embedding.    *)
(*                                                                         *)
(* One behaviour is one invocation of the handler.  The request body and   *)
(* the behaviour of the embedding provider (what it does for the question  *)
(* call and the answer call of every record) are fixed by Init; the        *)
(* actions are the statements of the handler, one per control point, with  *)
(* Python's exception propagation made explicit in pc and exc.             *)
(***************************************************************************)
EXTENDS Integers, Sequences, FiniteSets, TLC

\* Longest `values` list of a request.
MaxRecords == 2

\* Decoded provider replies (opaque embeddings, passed through verbatim).
Vectors == {"v1", "v2"}

\* What the provider does for one call: requests.post raises, the reply is
\* not decodable (response.json() raises), or the reply decodes to a vector.
Outcomes == {"post_raises", "undecodable"} \cup Vectors

\* The k-th record of a request.  recordId and question are k when present.
Shapes == {"ok", "noId", "noData", "noQuestion"}

MkRecord(k, shape) ==
    [recordId    |-> k,
     hasId       |-> shape # "noId",
     hasData     |-> shape # "noData",
     hasQuestion |-> shape \notin {"noData", "noQuestion"},
     question    |-> k,
     dataErrors  |-> FALSE]

ValueLists ==
    UNION { { [k \in 1..n |-> MkRecord(k, sh[k])] : sh \in [1..n -> Shapes] }
            : n \in 0..MaxRecords }

Requests ==
    { [parses |-> FALSE, hasValues |-> FALSE, values |-> <<>>],
      [parses |-> TRUE,  hasValues |-> FALSE, values |-> <<>>] }
    \cup { [parses |-> TRUE, hasValues |-> TRUE, values |-> vs] : vs \in ValueLists }

Providers(n) == [1..n -> [q : Outcomes, a : Outcomes]]

VARIABLES
    req,             \* the request body (never changes)
    provider,        \* provider[k].q / .a: outcome of record k's two calls
    pc,              \* line of function_app.py about to run, or "done"
    values,          \* local `values`
    outputBound,     \* whether local `output` has been assigned
    output,          \* local `output`
    i,               \* loop index (1-based)
    input_text_question,
    input_text_answer,
    questionvector,
    exc,             \* exception being propagated / caught, or "none"
    calls,           \* provider calls issued so far, in order
    result           \* how the invocation ended

vars == <<req, provider, pc, values, outputBound, output, i,
          input_text_question, input_text_answer, questionvector,
          exc, calls, result>>

NoResult == [kind |-> "none", status |-> 0, body |-> [values |-> <<>>]]

\* func.HttpResponse(json.dumps({"values": output}), status_code=code)
HttpResponse(out, code) ==
    [kind |-> "response", status |-> code, body |-> [values |-> out]]

\* An exception leaves the function.
Raised == [kind |-> "raised", status |-> 0, body |-> [values |-> <<>>]]

\* The function ends without a return statement: Python returns None.
ReturnedNone == [kind |-> "None", status |-> 0, body |-> [values |-> <<>>]]

Init ==
    /\ req \in Requests
    /\ provider \in Providers(Len(req.values))
    /\ pc = "L22"
    /\ values = <<>>
    /\ outputBound = FALSE
    /\ output = <<>>
    /\ i = 0
    /\ input_text_question = 0
    /\ input_text_answer = 0
    /\ questionvector = "unbound"
    /\ exc = "none"
    /\ calls = <<>>
    /\ result = NoResult

\* line 22: req_body = req.get_json()
GetJson ==
    /\ pc = "L22"
    /\ IF req.parses
          THEN /\ pc' = "L23"
               /\ exc' = exc
          ELSE /\ pc' = "L93"
               /\ exc' = "ValueError"
    /\ UNCHANGED <<req, provider, values, outputBound, output, i,
                   input_text_question, input_text_answer, questionvector,
                   calls, result>>

\* lines 23-24: values = req_body['values']; output = []
GetValues ==
    /\ pc = "L23"
    /\ IF req.hasValues
          THEN /\ values' = req.values
               /\ outputBound' = TRUE
               /\ output' = <<>>
               /\ i' = 0
               /\ pc' = "L27"
               /\ exc' = exc
          ELSE /\ pc' = "L93"
               /\ exc' = "KeyError"
               /\ UNCHANGED <<values, outputBound, output, i>>
    /\ UNCHANGED <<req, provider, input_text_question, input_text_answer,
                   questionvector, calls, result>>

\* line 27: for i in range(0, len(values)).  When the range is exhausted the
\* function body ends with no return statement.
LoopHead ==
    /\ pc = "L27"
    /\ IF i < Len(values)
          THEN /\ i' = i + 1
               /\ pc' = "L29"
               /\ result' = result
          ELSE /\ i' = i
               /\ pc' = "done"
               /\ result' = ReturnedNone
    /\ UNCHANGED <<req, provider, values, outputBound, output,
                   input_text_question, input_text_answer, questionvector,
                   exc, calls>>

\* lines 28-30: both texts are read from value['data']['question']
ExtractText ==
    /\ pc = "L29"
    /\ IF values[i].hasData /\ values[i].hasQuestion
          THEN /\ input_text_question' = values[i].question
               /\ input_text_answer' = values[i].question
               /\ pc' = "L44"
               /\ exc' = exc
          ELSE /\ pc' = "L93"
               /\ exc' = "KeyError"
               /\ UNCHANGED <<input_text_question, input_text_answer>>
    /\ UNCHANGED <<req, provider, values, outputBound, output, i,
                   questionvector, calls, result>>

\* The exception a provider outcome raises inside the inner try.
ProviderExc(o) ==
    IF o = "post_raises" THEN "RequestException" ELSE "JSONDecodeError"

\* Every outcome treated as a decoded reply (the failure is swallowed).
CallRaises_never(o) == FALSE

\* Whether requests.post(...) followed by response.json() raises.
CallRaises(o) == o \notin Vectors

\* lines 44-47: question call, decode, questionvector = embedding_output
PostQuestion ==
    /\ pc = "L44"
    /\ LET o == provider[i].q IN
       /\ calls' = Append(calls, [rec |-> i, field |-> "question",
                                  text |-> input_text_question, outcome |-> o])
       /\ IF CallRaises(o)
             THEN /\ exc' = ProviderExc(o)
                  /\ pc' = "L76"
                  /\ questionvector' = questionvector
             ELSE /\ questionvector' = o
                  /\ pc' = "L48"
                  /\ exc' = exc
    /\ UNCHANGED <<req, provider, values, outputBound, output, i,
                   input_text_question, input_text_answer, result>>

\* 'errors': null next to 'data', as in the commented schema of lines 59-75.
SuccessEntry_withErrors(id, av, qv) ==
    [recordID |-> id,
     data |-> [answerVector |-> av, questionVector |-> qv],
     errors |-> <<>>]

\* lines 52-58: the entry appended for a record whose calls succeeded
SuccessEntry(id, av, qv) ==
    [recordID |-> id, data |-> [answerVector |-> av, questionVector |-> qv]]

\* The id of the last record instead of the current one.
EntryRecordId_last(vals, k) == vals[Len(vals)].recordId

\* lines 53, 80: values[i]['recordId']
EntryRecordId(vals, k) == vals[k].recordId

\* lines 48-58: answer call, decode, then output.append({...}).  A missing
\* recordId raises KeyError inside the inner try.
PostAnswer ==
    /\ pc = "L48"
    /\ LET o == provider[i].a IN
       /\ calls' = Append(calls, [rec |-> i, field |-> "answer",
                                  text |-> input_text_answer, outcome |-> o])
       /\ IF CallRaises(o)
             THEN /\ exc' = ProviderExc(o)
                  /\ pc' = "L76"
                  /\ output' = output
             ELSE IF ~values[i].hasId
                     THEN /\ exc' = "KeyError"
                          /\ pc' = "L76"
                          /\ output' = output
                     ELSE /\ output' = Append(output,
                                 SuccessEntry(EntryRecordId(values, i), o, questionvector))
                          /\ pc' = "L85"
                          /\ exc' = exc
    /\ UNCHANGED <<req, provider, values, outputBound, i,
                   input_text_question, input_text_answer, questionvector,
                   result>>

\* line 81: "error is" + e.  str + exception object raises TypeError; only a
\* str operand concatenates.
StrAdd(s, x) ==
    IF x.isStr THEN [raised |-> FALSE, val |-> <<s, x.val>>]
               ELSE [raised |-> TRUE,  val |-> "TypeError"]

\* lines 79-82: the entry appended for a record whose processing raised
ErrorEntry(id, msg) ==
    [recordID |-> id, errors |-> <<[message |-> msg]>>]

\* lines 76-82: except Exception as e.  values[i]['data']['errors'] is set,
\* then the entry is built: recordId lookup first, then the message.
InnerExcept ==
    /\ pc = "L76"
    /\ values' = [values EXCEPT ![i].dataErrors = TRUE]
    /\ LET msg == StrAdd("error is", [isStr |-> FALSE, val |-> exc]) IN
       IF ~values[i].hasId
          THEN /\ exc' = "KeyError"
               /\ pc' = "L93"
               /\ output' = output
          ELSE IF msg.raised
                  THEN /\ exc' = msg.val
                       /\ pc' = "L93"
                       /\ output' = output
                  ELSE /\ output' = Append(output,
                              ErrorEntry(EntryRecordId(values, i), msg.val))
                       /\ pc' = "L85"
                       /\ exc' = "none"
    /\ UNCHANGED <<req, provider, outputBound, i, input_text_question,
                   input_text_answer, questionvector, calls, result>>

\* lines 85-92: return HttpResponse(json.dumps({"values": output}), 200),
\* inside the body of the for loop.
Return200 ==
    /\ pc = "L85"
    /\ result' = HttpResponse(output, 200)
    /\ pc' = "done"
    /\ UNCHANGED <<req, provider, values, outputBound, output, i,
                   input_text_question, input_text_answer, questionvector,
                   exc, calls>>

\* lines 93-99: except Exception as e: return HttpResponse(
\* json.dumps({"values": output}), 401).  Reading `output` before line 24 ran
\* raises UnboundLocalError out of the handler.
OuterExcept ==
    /\ pc = "L93"
    /\ IF outputBound
          THEN /\ result' = HttpResponse(output, 401)
               /\ exc' = "none"
          ELSE /\ result' = Raised
               /\ exc' = "UnboundLocalError"
    /\ pc' = "done"
    /\ UNCHANGED <<req, provider, values, outputBound, output, i,
                   input_text_question, input_text_answer, questionvector,
                   calls>>

Next ==
    \/ GetJson
    \/ GetValues
    \/ LoopHead
    \/ ExtractText
    \/ PostQuestion
    \/ PostAnswer
    \/ InnerExcept
    \/ Return200
    \/ OuterExcept

Spec == Init /\ [][Next]_vars

----------------------------------------------------------------------------
\* Vocabulary of the properties.

Done == pc = "done"

IsResponse == result.kind = "response"

WellFormed(r) == r.hasId /\ r.hasData /\ r.hasQuestion

\* The body parses and holds a `values` list of well-formed records.
ValidBatch ==
    /\ req.parses
    /\ req.hasValues
    /\ \A k \in 1..Len(req.values) : WellFormed(req.values[k])

HasData(e) == "data" \in DOMAIN e

HasErrors(e) == "errors" \in DOMAIN e

\* Record k's provider call fails: the question call, or the answer call
\* that follows a successful question call.
ProviderFails(k) ==
    \/ provider[k].q \notin Vectors
    \/ provider[k].a \notin Vectors

ProviderSucceeds(k) == provider[k].q \in Vectors /\ provider[k].a \in Vectors


AllProvidersSucceed == \A k \in 1..Len(req.values) : ProviderSucceeds(k)

ResponseValues == result.body.values

----------------------------------------------------------------------------
\* C1: for a valid batch of N records (N >= 0) and any provider outcomes, the
\* response carries a `values` list of exactly N entries.
C1_OutputLengthEqualsInput ==
    (Done /\ ValidBatch) =>
        (IsResponse /\ Len(ResponseValues) = Len(req.values))

\* C2: a body that does not parse as JSON, or parses without a `values` key,
\* is answered with an HTTP response of status 401.
C2_ParseFailureGives401 ==
    (Done /\ (~req.parses \/ ~req.hasValues)) =>
        (IsResponse /\ result.status = 401)

\* C3: a well-formed record whose provider call fails has an entry in the
\* response with its recordID, an `errors` list of one message and no data.
C3_FailedRecordHasErrorEntry ==
    (Done /\ ValidBatch) =>
        \A k \in 1..Len(req.values) :
            ProviderFails(k) =>
                /\ IsResponse
                /\ \E j \in 1..Len(ResponseValues) :
                      /\ ResponseValues[j].recordID = req.values[k].recordId
                      /\ HasErrors(ResponseValues[j])
                      /\ Len(ResponseValues[j].errors) = 1
                      /\ ~HasData(ResponseValues[j])

\* C4: a provider failure never aborts the batch: a valid batch in which
\* some provider call fails is still answered with status 200.
C4_ProviderFailureStill200 ==
    (Done /\ ValidBatch /\ \E k \in 1..Len(req.values) : ProviderFails(k)) =>
        (IsResponse /\ result.status = 200)

\* C5: every record of a valid batch, at any position, whose two provider
\* calls succeed has an entry in the response with its recordID, the question
\* reply as questionVector and the answer reply as answerVector.
C5_SucceededRecordHasVectors ==
    (Done /\ ValidBatch /\ AllProvidersSucceed) =>
        \A k \in 1..Len(req.values) :
            /\ IsResponse
            /\ \E j \in 1..Len(ResponseValues) :
                  /\ ResponseValues[j].recordID = req.values[k].recordId
                  /\ HasData(ResponseValues[j])
                  /\ ResponseValues[j].data.questionVector = provider[k].q
                  /\ ResponseValues[j].data.answerVector = provider[k].a

\* C6: when any record, at any position, lacks `data` or `data.question`,
\* the response has status 401, not 200.
C6_MalformedRecordGives401 ==
    (Done /\ req.parses /\ req.hasValues
          /\ \E k \in 1..Len(req.values) :
                ~(req.values[k].hasData /\ req.values[k].hasQuestion)) =>
        (IsResponse /\ result.status = 401)

\* Entry j of an output list carries the recordId of input record j.
InInputOrder(out) ==
    \A j \in 1..Len(out) :
        /\ j <= Len(req.values)
        /\ req.values[j].hasId
        /\ out[j].recordID = req.values[j].recordId

\* C7: the output preserves input order: the entry at position j of the
\* output list carries the recordId of the input record at position j, in the
\* accumulator and in every response.
C7_OutputInInputOrder ==
    /\ InInputOrder(output)
    /\ IsResponse => InInputOrder(ResponseValues)

\* A response for a batch of two records carries an entry.
C7_Witness ==
    /\ IsResponse
    /\ Len(req.values) >= 2
    /\ Len(ResponseValues) >= 1

DataXorErrors(e) == HasData(e) # HasErrors(e)

\* C8: every entry of the output accumulator and of every response has
\* either a `data` payload or an `errors` list, never both and never neither.
C8_DataXorErrors ==
    /\ \A j \in 1..Len(output) : DataXorErrors(output[j])
    /\ IsResponse => \A j \in 1..Len(ResponseValues) : DataXorErrors(ResponseValues[j])

\* A returned entry that carries both vectors.
C8_Witness ==
    /\ IsResponse
    /\ Len(ResponseValues) >= 1
    /\ HasData(ResponseValues[1])
    /\ ResponseValues[1].data.questionVector \in Vectors
    /\ ResponseValues[1].data.answerVector \in Vectors

\* C9: no retry: at most one question call and one answer call per record,
\* and an answer call is issued only after the question call of the same
\* record was issued earlier and returned a decoded reply.
C9_SingleAttemptInOrder ==
    /\ \A a, b \in 1..Len(calls) :
          (calls[a].rec = calls[b].rec /\ calls[a].field = calls[b].field) => a = b
    /\ \A b \in 1..Len(calls) :
          calls[b].field = "answer" =>
              \E a \in 1..(b - 1) :
                  /\ calls[a].rec = calls[b].rec
                  /\ calls[a].field = "question"
                  /\ calls[a].outcome \in Vectors

\* Both calls of a record were issued, and the answer call failed.
C9_Witness ==
    /\ Done
    /\ Len(calls) = 2
    /\ calls[1].field = "question"
    /\ calls[2].field = "answer"
    /\ calls[2].outcome \notin Vectors

\* C10: every invocation ends by returning an HTTP response of status 200 or
\* 401 whose body holds a `values` list; it never ends with an uncaught
\* exception and never returns without a response.
C10_AlwaysResponds ==
    Done => (IsResponse /\ result.status \in {200, 401})

====
